---- MODULE Spec2Model ----
(***************************************************************************)
(* rollup-plugin-endorphin: extraction of template resources, the virtual   *)
(* module registry for inline scripts, the per-stylesheet transform tasks   *)
(* of transform(), and the assembly of the CSS bundle in generateBundle().  *)
(*                                                                          *)
(* Two revisions of the plugin are modelled; `variant` selects one:         *)
(*   1  src/unnamed/part_000        (cssResources keyed by stylesheet id)   *)
(*   3  src/index.ts, lines 253-630 (componentStyles keyed by module id,    *)
(*                                   getTopologicalModuleList)              *)
(* A string is a sequence of one-character strings, so that slicing and    *)
(* concatenation are computed as the code computes them.                    *)
(***************************************************************************)
EXTENDS Integers, Sequences, FiniteSets, TLC

VARIABLES
    variant,          \* which revision of the plugin runs (fixed by Init)
    options,          \* the plugin options after merging with the defaults
    disk,             \* the external stylesheet files that exist on disk
    pc,               \* transform(id): "idle","running","resolved","rejected","skipped"
    task,             \* task[id][k]: state and error of stylesheet task k of transform(id)
    rejection,        \* Promise.all of transform(id): the first rejection, or NoValue
    settled,          \* what transform(id) returned or threw, or NoValue
    jsResources,      \* the registry of inline scripts: virtual path -> content
    scriptRef,        \* scriptRef[id][i]: the reference left in script i for generate
    componentStyles,  \* variant 3: module id -> sequence of fragments
    cssResources,     \* variant 1: Map in insertion order, <<key, fragment>> pairs
    bundlePc,         \* generateBundle: "idle","walking","done","failed"
    host,             \* the host's module graph and output options of this call
    entryModules,     \* getTopologicalModuleList: the entry modules found
    entryIdx,         \* index of the next entry module of entryModules.forEach
    lookup,           \* the Set `lookup`, in insertion order
    stack,            \* the call stack of walkModule: frames [mod, i]
    output,           \* the fragments added to the output SourceNode, in order
    emitted,          \* what generateBundle wrote or emitted
    applied,          \* the last application of a helper function: [fn, arg, out]
    previous          \* the output and emission of the generateBundle call before
                      \* this one, and the Aggregator as the first call found it

vars == <<variant, options, disk, pc, task, rejection, settled, jsResources,
          scriptRef, componentStyles, cssResources, bundlePc, host,
          entryModules, entryIdx, lookup, stack, output, emitted, applied,
          previous>>

\* undefined / null; every value that may be absent is a tuple
NoValue == <<"undefined">>

(***************************************************************************)
(* Strings                                                                 *)
(***************************************************************************)
Range(s) == {s[k] : k \in DOMAIN s}

Max(S) == CHOOSE x \in S : \A y \in S : y <= x

\* String.prototype.charCodeAt for the characters the model uses
charCodeAt(c) ==
    CASE c = "." -> 46  [] c = "/" -> 47  [] c = "0" -> 48  [] c = "1" -> 49
      [] c = "2" -> 50  [] c = "@" -> 64  [] c = "_" -> 95  [] c = "a" -> 97
      [] c = "b" -> 98  [] c = "c" -> 99  [] c = "d" -> 100 [] c = "e" -> 101
      [] c = "h" -> 104 [] c = "j" -> 106 [] c = "l" -> 108 [] c = "m" -> 109
      [] c = "n" -> 110 [] c = "s" -> 115 [] c = "t" -> 116 [] c = "x" -> 120

\* s.slice(from, to) with 0-based from (inclusive) and to (exclusive)
slice(s, from, to) == SubSeq(s, from + 1, to)

\* path.extname (posix): from the last "." of the last path segment to the
\* end of that segment; "" when the segment has no "." or starts with its
\* only ".", or is ".."
extname(p) ==
    LET nonSlash  == {k \in DOMAIN p : p[k] # "/"}
        end       == IF nonSlash = {} THEN 0 ELSE Max(nonSlash)
        slashes   == {k \in 1..end : p[k] = "/"}
        startPart == IF slashes = {} THEN 1 ELSE Max(slashes) + 1
        dots      == {k \in startPart..end : p[k] = "."}
        startDot  == IF dots = {} THEN 0 ELSE Max(dots)
    IN  IF \/ startDot = 0
           \/ startDot = startPart
           \/ (startDot = end /\ startDot = startPart + 1 /\ p[startPart] = ".")
        THEN <<>>
        ELSE SubSeq(p, startDot, end)

\* path.dirname (posix) of an absolute or relative path without trailing "/"
dirname(p) ==
    LET slashes == {k \in DOMAIN p : p[k] = "/"}
    IN  IF slashes = {} THEN <<".">>
        ELSE IF Max(slashes) = 1 THEN <<"/">>
        ELSE SubSeq(p, 1, Max(slashes) - 1)

\* path.resolve(dir, url) for an absolute dir and a url without "." segments
resolve(dir, url) ==
    IF url # <<>> /\ url[1] = "/" THEN url
    ELSE IF dir = <<"/">> THEN dir \o url
    ELSE dir \o <<"/">> \o url

\* path.relative('./', id) with the working directory "/"
relative(id) == IF id # <<>> /\ id[1] = "/" THEN Tail(id) ELSE id

\* Number.prototype.toString() of an index below 3
indexToString(i) == <<(<<"0", "1", "2">>)[i + 1]>>

\* a < b in the order of Array.prototype.sort (by UTF-16 code unit)
RECURSIVE stringLess(_, _)
stringLess(a, b) ==
    IF b = <<>> THEN FALSE
    ELSE IF a = <<>> THEN TRUE
    ELSE IF charCodeAt(a[1]) # charCodeAt(b[1])
         THEN charCodeAt(a[1]) < charCodeAt(b[1])
    ELSE stringLess(Tail(a), Tail(b))

(***************************************************************************)
(* The build's inputs: module identities, parsed templates, files           *)
(***************************************************************************)
A_HTML  == <<"/", "a", ".", "h", "t", "m", "l">>
A_END   == <<"/", "a", ".", "e", "n", "d">>
B_HTML  == <<"/", "b", ".", "h", "t", "m", "l">>
MAIN_JS == <<"/", "m", ".", "j", "s">>
\* an identity the host graph no longer knows (a stale import edge)
GONE_JS == <<"/", "x", ".", "j", "s">>
S_CSS   == <<"s", ".", "c", "s", "s">>

Modules == {MAIN_JS, A_HTML, A_END, B_HTML}

\* the inline or external script elements the parser returns for a template;
\* content is NoValue for an external script, transformed is NoValue when
\* the parser ran no script transform
scriptsOf(id) ==
    CASE id = A_HTML -> << [mime |-> "text/javascript", content |-> <<"scriptA">>,
                            transformed |-> NoValue] >>
      [] id = A_END  -> << [mime |-> "text/javascript", content |-> <<"scriptE">>,
                            transformed |-> NoValue] >>
      [] id = B_HTML -> << [mime |-> "text/javascript", content |-> NoValue,
                            transformed |-> NoValue],
                           [mime |-> "ts", content |-> <<"scriptB">>,
                            transformed |-> <<"scriptBjs">>] >>
      [] OTHER       -> << >>

\* the stylesheet elements the parser returns; url = id for an inline one.
\* a.html has two inline stylesheets, b.html refers to a file, a.end has none
stylesheetsOf(id) ==
    CASE id = A_HTML -> << [mime |-> "text/css", url |-> A_HTML, content |-> <<"cssA0">>],
                           [mime |-> "scss", url |-> A_HTML, content |-> <<"cssA1">>] >>
      [] id = B_HTML -> << [mime |-> "scss", url |-> S_CSS, content |-> NoValue] >>
      [] OTHER       -> << >>

\* endorphin.parse(source, id): the parsed template
parse(id) == [url |-> id, scripts |-> scriptsOf(id), stylesheets |-> stylesheetsOf(id)]

\* the template text handed to transform(source, id)
sourceOf(id) == <<"source", id>>

\* fs.readFileSync(fullId, 'utf8') of a file that exists
fileText(fullId) == <<"text", fullId>>

(***************************************************************************)
(* Options and defaults                                                    *)
(***************************************************************************)
\* defaultOptions.extensions
extensions == { <<".", "h", "t", "m", "l">>, <<".", "e", "n", "d">> }

defaultScriptType == "text/javascript"

\* defaultOptions.types
types == [m \in {"text/javascript", "text/css", "typescript", "ts", "javascript",
                 "sass", "scss"} |->
            CASE m \in {"text/javascript", "javascript"} -> <<".", "j", "s">>
              [] m = "text/css"                           -> <<".", "c", "s", "s">>
              [] m \in {"typescript", "ts"}               -> <<".", "t", "s">>
              [] m = "sass"                               -> <<".", "s", "a", "s", "s">>
              [] m = "scss"                               -> <<".", "s", "c", "s", "s">>]

\* options.types[script.mime] || options.types[defaultScriptType]
typeExt(mime) == IF mime \in DOMAIN types THEN types[mime] ELSE types[defaultScriptType]

BUNDLE_NAME == <<"b", ".", "c", "s", "s">>

\* a CSSBundleHandler function given as css.name
HANDLER == <<"function">>

\* the option records a plugin instance may be built with: css.preprocess
\* set or not, css.name (cssBundle in variant 1) unset, a string or a
\* handler function, the custom entry unset or "a.end", with the default
\* css.scope; and one build of variant 3 whose css.scope returns the empty
\* token
OptionSets(v) ==
    [preprocess : BOOLEAN,
     scope      : {"default"},
     name       : IF v = 1 THEN {NoValue, BUNDLE_NAME} ELSE {NoValue, BUNDLE_NAME, HANDLER},
     entry      : IF v = 1 THEN {NoValue} ELSE {NoValue, relative(A_END)}]
    \cup (IF v = 1 THEN {}
          ELSE { [preprocess |-> TRUE, scope |-> "empty", name |-> BUNDLE_NAME,
                  entry |-> NoValue] })

\* the modulus of the checksum in defaultCSSOptions.scope
AdlerMod == 65521

\* s2 << 16 as a 32-bit signed integer (s2 in 0..65520)
shl16(s2) == IF s2 < 32768 THEN s2 * 65536 ELSE (s2 - 65536) * 65536

\* the two accumulators of defaultCSSOptions.scope after the first n characters
RECURSIVE adler(_, _)
adler(filePath, n) ==
    IF n = 0 THEN [s1 |-> 1, s2 |-> 0]
    ELSE LET prev == adler(filePath, n - 1)
             s1   == (prev.s1 + charCodeAt(filePath[n])) % AdlerMod
         IN  [s1 |-> s1, s2 |-> (prev.s2 + s1) % AdlerMod]

\* the digits of Number.prototype.toString(36)
Digits36 == <<"0", "1", "2", "3", "4", "5", "6", "7", "8", "9", "a", "b", "c", "d",
              "e", "f", "g", "h", "i", "j", "k", "l", "m", "n", "o", "p", "q", "r",
              "s", "t", "u", "v", "w", "x", "y", "z">>

\* the base-36 digits of n >= 0
RECURSIVE digits36(_)
digits36(n) ==
    IF n < 36 THEN <<Digits36[n + 1]>>
    ELSE digits36(n \div 36) \o <<Digits36[(n % 36) + 1]>>

\* Number.prototype.toString(36) of a 32-bit signed integer: a negative
\* number is rendered as "-" followed by the digits of its magnitude
toString36(n) ==
    IF n >= 0 THEN digits36(n)
    ELSE LET last == (36 - (n % 36)) % 36
             rest == -((n + last) \div 36)
         IN  <<"-">> \o (IF rest = 0 THEN <<>> ELSE digits36(rest))
                     \o <<Digits36[last + 1]>>

\* defaultCSSOptions.scope(filePath): 'e' + ((s2 << 16) + s1).toString(36)
scope(filePath) ==
    LET acc == adler(filePath, Len(filePath))
    IN  <<"e">> \o toString36(shl16(acc.s2) + acc.s1)

\* createAssetUrl(baseUrl, ext, index)
createAssetUrl(baseUrl, ext, index) ==
    LET n        == Len(extname(baseUrl))
        \* baseUrl.slice(0, -n); slice(0, -0) is slice(0, 0)
        baseName == IF n = 0 THEN <<>> ELSE slice(baseUrl, 0, Len(baseUrl) - n)
    IN  baseName \o <<"_">> \o indexToString(index) \o ext

\* variant 3 puts "./" before an asset url that starts with none of . / @
normalizeAssetUrl(assetUrl) ==
    IF assetUrl = <<>> \/ assetUrl[1] \notin {".", "/", "@"}
    THEN <<".", "/">> \o assetUrl
    ELSE assetUrl

\* the virtual path transform() registers for createAssetUrl's arguments:
\* variant 3 normalises it, variant 1 registers it as it is
virtualPath(v, baseUrl, ext, index) ==
    IF v = 1 THEN createAssetUrl(baseUrl, ext, index)
    ELSE normalizeAssetUrl(createAssetUrl(baseUrl, ext, index))

\* the virtual path transform() registers script i (0-based) of a template under
assetUrlOf(v, id, i) ==
    virtualPath(v, parse(id).url, typeExt(parse(id).scripts[i + 1].mime), i)

\* the content transform() stores for a script: script.content.value in
\* variant 1, script.transformed || script.content in variant 3
registeredContent(v, script) ==
    IF v = 3 /\ script.transformed # NoValue THEN script.transformed ELSE script.content

\* the indices (0-based) of the scripts transform() registers: if (script.content)
inlineScripts(id) ==
    {i \in 0..(Len(parse(id).scripts) - 1) : parse(id).scripts[i + 1].content # NoValue}

\* obj[key] = value on a plain object
objSet(obj, key, value) ==
    [k \in DOMAIN obj \cup {key} |-> IF k = key THEN value ELSE obj[k]]

\* the scripts.forEach loop of transform over scripts i..n-1: the registry after it
RECURSIVE registerScripts(_, _, _, _)
registerScripts(v, id, i, registry) ==
    IF i >= Len(parse(id).scripts) THEN registry
    ELSE IF i \in inlineScripts(id)
         THEN registerScripts(v, id, i + 1,
                  objSet(registry, assetUrlOf(v, id, i),
                         registeredContent(v, parse(id).scripts[i + 1])))
         ELSE registerScripts(v, id, i + 1, registry)

\* the reference each script carries after the loop (script.url in variant
\* 3, the path of the export statement in variant 1); NoValue when untouched
scriptRefs(v, id) ==
    [k \in 1..Len(parse(id).scripts) |->
        IF (k - 1) \in inlineScripts(id) THEN assetUrlOf(v, id, k - 1) ELSE NoValue]

\* the property names a plain object `{}` inherits from Object.prototype
\* (three of them)
ObjectPrototypeKeys ==
    { <<"c", "o", "n", "s", "t", "r", "u", "c", "t", "o", "r">>,
      <<"t", "o", "S", "t", "r", "i", "n", "g">>,
      <<"_", "_", "p", "r", "o", "t", "o", "_", "_">> }

\* `key in obj` on a plain object: true for its own keys and for the
\* inherited ones
hasProperty(obj, key) == key \in DOMAIN obj \/ key \in ObjectPrototypeKeys

\* obj[key] on a plain object: the own value, else the inherited one
getProperty(obj, key) ==
    IF key \in DOMAIN obj THEN obj[key]
    ELSE IF key \in ObjectPrototypeKeys THEN <<"Object.prototype", key>>
    ELSE NoValue

\* load(id): id in jsResources ? jsResources[id] : null
load(id) == IF hasProperty(jsResources, id) THEN getProperty(jsResources, id) ELSE NoValue

\* resolveId(id): id in jsResources ? id : null
resolveId(id) == IF hasProperty(jsResources, id) THEN id ELSE NoValue

(***************************************************************************)
(* The stylesheet pipeline of one task of transform()                      *)
(***************************************************************************)
\* createFilter(options.include, options.exclude) with neither option set
filter(id) == TRUE

\* path.resolve(path.dirname(id), stylesheet.url)
fullIdOf(id, stylesheet) == resolve(dirname(id), stylesheet.url)

\* const isExternal = stylesheet.url !== id
isExternal(id, stylesheet) == stylesheet.url # id

\* the content a task reads: the file for an external stylesheet, else the
\* inline text
contentOf(id, stylesheet) ==
    IF isExternal(id, stylesheet) THEN fileText(fullIdOf(id, stylesheet))
    ELSE stylesheet.content

\* a string and a Buffer holding the characters s
text(s) == <<"string", s>>
bytes(s) == <<"buffer", s>>

\* Buffer.isBuffer(v)
isBuffer(v) == v[1] = "buffer"

\* Buffer.prototype.toString()
bufferToString(v) == text(v[2])

\* the truthiness of a value: undefined and the empty string are falsy
truthy(v) == v # NoValue /\ v # text(<<>>)

\* the source maps a transformer may hand back: a RawSourceMap object with
\* its `file`, a SourceMapGenerator (an object with addMapping), and the
\* characters of a serialized map, of text that is no JSON, or of nothing
rawMap(file) == <<"raw", file>>
generator(file) == <<"generator", file>>
json(file) == <<"json", file>>
GARBAGE == <<"garbage">>
PRE_FILE == <<"file", "pre">>

\* JSON.parse(chars) succeeds on a serialized map only
isJSON(chars) == chars # <<>> /\ chars[1] = "json"

\* SourceMapGenerator.prototype.toJSON()
toJSON(map) == rawMap(map[2])

\* the CSS a transformer makes of `content`
preCode(content) == <<"pre", content>>

\* what the css.preprocess transformer of a build does when awaited: it
\* throws, or returns a string, or for scss an object with code and a map
\* that is a parsed map, an empty string or text that is no JSON
PreprocessReturns(mime, content) ==
    { [kind |-> "throw", code |-> NoValue, css |-> NoValue, map |-> NoValue] }
    \cup (IF mime = "scss"
          THEN { [kind |-> "object", code |-> text(preCode(content)), css |-> NoValue,
                  map |-> m] : m \in {rawMap(PRE_FILE), text(<<>>), text(GARBAGE)} }
          ELSE { [kind |-> "string", code |-> text(preCode(content)), css |-> NoValue,
                  map |-> NoValue] })

\* the error a throwing transformer raises for stylesheet i of a template
TransformError(id, i) == <<"TransformError", id, i>>

\* the error of fs.readFileSync on a missing file
ReadError(fullId) == <<"ENOENT", fullId>>

\* the error of JSON.parse or new SourceMapConsumer on a map that cannot be
\* parsed, in the task of stylesheet i of a template
MapError(id, i) == <<"SyntaxError", id, i>>

\* transformResource of variant 3 for a transformer that returned
\* `transformed`. The finalized map of a SourceMapGenerator is assigned to
\* result.map; the function returns the local `map`.
transformResource(transformed) ==
    LET result == IF transformed.kind \in {"string", "buffer"}
                  THEN [code |-> transformed.code, css |-> NoValue, map |-> NoValue]
                  ELSE [code |-> transformed.code, css |-> transformed.css,
                        map |-> transformed.map]
        code0  == IF truthy(result.css) THEN result.css ELSE result.code
        code   == IF isBuffer(code0) THEN bufferToString(code0) ELSE code0
        map    == IF isBuffer(result.map) THEN bufferToString(result.map) ELSE result.map
        result2 == IF truthy(map) /\ map[1] = "generator"
                   THEN [result EXCEPT !.map = toJSON(result.map)] ELSE result
    IN  [code |-> code, map |-> map]

\* the map the configured transformer returned (none without a transformer)
returnedMap(ret) == IF options.preprocess THEN ret.map ELSE NoValue

\* the code and map before scoping: { code: content } unless a transformer
\* is configured and returned a result
preprocessed(content, ret) ==
    IF options.preprocess THEN transformResource(ret)
    ELSE [code |-> text(content), map |-> NoValue]

\* const cssScope = options.css.scope(id): the default scope function, or
\* one supplied by the user that returns the empty token
cssScope(id) == IF options.scope = "default" THEN scope(id) ELSE <<>>

\* the map handed to scopeCSS: JSON.parse(map) of a map given as a string
parsedMap(map) == IF map[1] = "string" /\ isJSON(map[2]) THEN rawMap(map[2][2]) ELSE map

\* endorphin.scopeCSS(code, cssScope, { filename, map }) with the filename
\* taken from map.file when the map has one
scopeCSS(transformed, token, fullId) ==
    LET map      == parsedMap(transformed.map)
        filename == IF truthy(map) THEN map[2] ELSE fullId
    IN  [code |-> <<"scoped", token, transformed.code>>,
         map  |-> IF truthy(map) THEN rawMap(filename) ELSE NoValue]

\* new SourceMapConsumer(map) accepts a parsed map or a serialized one
consumable(map) == map[1] = "raw" \/ (map[1] = "string" /\ isJSON(map[2]))

\* nodeFromTransformed(data, source, fileName): the SourceNode of a fragment,
\* mapped when data.map is truthy and else plain.
\* origin is the (template, position) label and returned the transformer's
\* map the properties refer to.
nodeFromTransformed(data, source, fileName, origin, returned) ==
    [code |-> data.code,
     map  |-> IF truthy(data.map) THEN parsedMap(data.map) ELSE NoValue,
     sourceContent |-> <<fileName, source>>, origin |-> origin, returned |-> returned]

\* the error the task of variant 3 for stylesheet i throws after the
\* transformer returned `ret`, or NoValue: JSON.parse of a string map when a
\* scope token applies, new SourceMapConsumer of a truthy map when none does
taskError3(id, i, ret) ==
    LET stylesheet  == parse(id).stylesheets[i + 1]
        transformed == preprocessed(contentOf(id, stylesheet), ret)
    IN  IF cssScope(id) # <<>>
        THEN IF transformed.map[1] = "string" /\ ~isJSON(transformed.map[2])
             THEN MapError(id, i) ELSE NoValue
        ELSE IF truthy(transformed.map) /\ ~consumable(transformed.map)
             THEN MapError(id, i) ELSE NoValue

\* the fragment a task of variant 3 pushes for stylesheet i (0-based)
fragment3(id, i, ret) ==
    LET stylesheet  == parse(id).stylesheets[i + 1]
        fullId      == fullIdOf(id, stylesheet)
        content     == contentOf(id, stylesheet)
        transformed == preprocessed(content, ret)
        data        == IF cssScope(id) # <<>>
                       THEN scopeCSS(transformed, cssScope(id), fullId)
                       ELSE transformed
    IN  nodeFromTransformed(data, content, fullId, <<id, i>>, returnedMap(ret))

\* the error transformResource of variant 1 throws after the transformer
\* returned `ret`, or NoValue: new SourceMapConsumer(transformed.map) for
\* every object
taskError1(id, i, ret) ==
    IF options.preprocess /\ ret.kind = "object" /\ ~consumable(ret.map)
    THEN MapError(id, i) ELSE NoValue

\* transformResource of variant 1 followed by setSourceContent: an empty
\* node when no transformer is configured; setSourceContent is called with
\* (content, fullId) for an external and (source, id) for an inline stylesheet
fragment1(id, i, ret) ==
    LET stylesheet == parse(id).stylesheets[i + 1]
        fullId     == fullIdOf(id, stylesheet)
        content    == contentOf(id, stylesheet)
    IN  [code |-> IF ~options.preprocess THEN text(<<>>)
                  ELSE IF isBuffer(ret.code) THEN bufferToString(ret.code) ELSE ret.code,
         map  |-> IF options.preprocess /\ ret.kind = "object"
                  THEN parsedMap(ret.map) ELSE NoValue,
         sourceContent |-> IF isExternal(id, stylesheet) THEN <<content, fullId>>
                           ELSE <<sourceOf(id), id>>,
         origin |-> <<id, i>>, returned |-> returnedMap(ret)]

\* the error the task throws between the transformer's return and the store
taskError(id, i, ret) ==
    IF variant = 3 THEN taskError3(id, i, ret) ELSE taskError1(id, i, ret)

\* Map.prototype.set on a Map kept as a sequence of <<key, value>> pairs in
\* insertion order
mapSet(m, key, value) ==
    IF \E k \in DOMAIN m : m[k][1] = key
    THEN [k \in DOMAIN m |-> IF m[k][1] = key THEN <<key, value>> ELSE m[k]]
    ELSE Append(m, <<key, value>>)

\* componentStyles.get(id).push(node)
pushStyle(styles, id, node) == [styles EXCEPT ![id] = Append(@, node)]

\* Promise.allSettled in place of Promise.all: waits for every task and
\* fulfils whatever their outcome
allSettled(tasks) == \A k \in DOMAIN tasks : tasks[k].state # "awaiting"

\* no await of the tasks, in place of await Promise.all
notAwaited(tasks) == TRUE

\* Promise.all fulfils when every task has fulfilled
allFulfilled(tasks) == \A k \in DOMAIN tasks : tasks[k].state = "fulfilled"

\* the first rejection Promise.all has seen, which later ones do not replace
firstRejection(current, error) == IF current = NoValue THEN error ELSE current

(***************************************************************************)
(* transform(source, id)                                                   *)
(***************************************************************************)
\* the state each stylesheet task is in when transform reaches Promise.all,
\* with the error it rejected with: variant 3 reads an external file before
\* its first await, variant 1 awaits this.resolveId first
startedTasks(id) ==
    [k \in DOMAIN parse(id).stylesheets |->
        LET stylesheet == parse(id).stylesheets[k]
        IN  IF variant = 3 /\ isExternal(id, stylesheet)
                /\ fullIdOf(id, stylesheet) \notin disk
            THEN [state |-> "rejected", error |-> ReadError(fullIdOf(id, stylesheet))]
            ELSE [state |-> "awaiting", error |-> NoValue]]

\* the rejection Promise.all holds right after the tasks were started
startedRejection(id) ==
    LET failed == {k \in DOMAIN startedTasks(id) : startedTasks(id)[k].state = "rejected"}
    IN  IF failed = {} THEN NoValue
        ELSE LET k == CHOOSE x \in failed : \A y \in failed : x <= y
             IN  startedTasks(id)[k].error

\* transform returns null for an id that is not a template
TransformSkip(id) ==
    /\ bundlePc = "idle"
    /\ pc[id] = "idle"
    /\ ~filter(id) \/ extname(id) \notin extensions
    /\ pc' = [pc EXCEPT ![id] = "skipped"]
    /\ settled' = [settled EXCEPT ![id] = <<"null">>]
    /\ UNCHANGED <<applied, previous, variant, options, disk, task, rejection, jsResources, scriptRef,
                   componentStyles, cssResources, bundlePc, host, entryModules,
                   entryIdx, lookup, stack, output, emitted>>

\* transform up to its await of Promise.all: registers the inline scripts,
\* resets the template's fragment list (variant 3) and starts every task
TransformStart(id) ==
    /\ bundlePc = "idle"
    /\ pc[id] = "idle"
    /\ filter(id) /\ extname(id) \in extensions
    /\ jsResources' = registerScripts(variant, id, 0, jsResources)
    /\ scriptRef' = [scriptRef EXCEPT ![id] = scriptRefs(variant, id)]
    /\ componentStyles' = IF variant = 3 THEN objSet(componentStyles, id, <<>>)
                          ELSE componentStyles
    /\ task' = [task EXCEPT ![id] = startedTasks(id)]
    /\ rejection' = [rejection EXCEPT ![id] = startedRejection(id)]
    /\ pc' = [pc EXCEPT ![id] = "running"]
    /\ UNCHANGED <<applied, previous, variant, options, disk, settled, cssResources, bundlePc, host,
                   entryModules, entryIdx, lookup, stack, output, emitted>>

\* a task rejects with `error`
TaskRejects(id, i, error) ==
    /\ task' = [task EXCEPT ![id][i + 1] = [state |-> "rejected", error |-> error]]
    /\ rejection' = [rejection EXCEPT ![id] = firstRejection(@, error)]
    /\ UNCHANGED <<componentStyles, cssResources>>

\* a task stores its fragment: componentStyles.get(id).push(node) in
\* variant 3, cssResources.set(fullId, node) in variant 1
TaskStores(id, i, ret) ==
    /\ task' = [task EXCEPT ![id][i + 1] = [state |-> "fulfilled", error |-> NoValue]]
    /\ IF variant = 3
       THEN /\ componentStyles' = pushStyle(componentStyles, id, fragment3(id, i, ret))
            /\ UNCHANGED cssResources
       ELSE /\ cssResources' = mapSet(cssResources,
                                      fullIdOf(id, parse(id).stylesheets[i + 1]),
                                      fragment1(id, i, ret))
            /\ UNCHANGED componentStyles
    /\ UNCHANGED rejection

\* the rest of stylesheet task i (0-based) of transform(id), from its pending
\* await to its end; the tasks of one transform finish in any order, also
\* after transform itself has rejected
TaskSettle(id, i) ==
    /\ pc[id] \in {"running", "rejected"}
    /\ i + 1 \in DOMAIN task[id]
    /\ task[id][i + 1].state = "awaiting"
    /\ LET stylesheet == parse(id).stylesheets[i + 1]
           fullId     == fullIdOf(id, stylesheet)
       IN  IF variant = 1 /\ isExternal(id, stylesheet) /\ fullId \notin disk
           THEN TaskRejects(id, i, ReadError(fullId))
           ELSE \E ret \in PreprocessReturns(stylesheet.mime, contentOf(id, stylesheet)) :
                   IF options.preprocess /\ ret.kind = "throw"
                   THEN TaskRejects(id, i, TransformError(id, i))
                   ELSE IF taskError(id, i, ret) # NoValue
                   THEN TaskRejects(id, i, taskError(id, i, ret))
                   ELSE TaskStores(id, i, ret)
    /\ UNCHANGED <<applied, previous, variant, options, disk, pc, settled, jsResources, scriptRef,
                   bundlePc, host, entryModules, entryIdx, lookup, stack, output,
                   emitted>>

\* Promise.all fulfilled: transform calls generate and returns its result
TransformResolve(id) ==
    /\ pc[id] = "running"
    /\ allFulfilled(task[id])
    /\ pc' = [pc EXCEPT ![id] = "resolved"]
    /\ settled' = [settled EXCEPT ![id] = <<"generated", id>>]
    /\ UNCHANGED <<applied, previous, variant, options, disk, task, rejection, jsResources, scriptRef,
                   componentStyles, cssResources, bundlePc, host, entryModules,
                   entryIdx, lookup, stack, output, emitted>>

\* Promise.all rejected: transform rejects with the first rejection
TransformReject(id) ==
    /\ pc[id] = "running"
    /\ rejection[id] # NoValue
    /\ pc' = [pc EXCEPT ![id] = "rejected"]
    /\ settled' = [settled EXCEPT ![id] = rejection[id]]
    /\ UNCHANGED <<applied, previous, variant, options, disk, task, rejection, jsResources, scriptRef,
                   componentStyles, cssResources, bundlePc, host, entryModules,
                   entryIdx, lookup, stack, output, emitted>>

(***************************************************************************)
(* The host's module graph                                                 *)
(***************************************************************************)
\* this.getModuleIds(): every module of the build
moduleIds == <<MAIN_JS, A_HTML, A_END, B_HTML>>

\* the graph of a host that exposes none (no getModuleIds)
NoGraph == [isEntry |-> {}, imports |-> [m \in Modules |-> <<>>]]

\* the module graphs the host may hand to generateBundle: which modules are
\* entries, and the importedIds of each module (cycles, self-imports, a
\* stale identity and modules no entry reaches included)
HostGraphs ==
    {g \in [isEntry : { {MAIN_JS}, {A_HTML}, {A_HTML, B_HTML} },
            imports : [Modules -> { <<>>, <<B_HTML>>, <<A_HTML>>, <<A_HTML, A_END>>,
                                    <<A_HTML, B_HTML>>, <<A_END, B_HTML>>,
                                    <<GONE_JS, B_HTML>> }]] :
        /\ g.imports[MAIN_JS] = <<A_HTML, A_END>>
        /\ g.imports[A_HTML] \in { <<>>, <<B_HTML>>, <<A_HTML, B_HTML>>,
                                   <<A_END, B_HTML>>, <<GONE_JS, B_HTML>> }
        /\ g.imports[A_END] \in { <<>>, <<B_HTML>> }
        /\ g.imports[B_HTML] \in { <<>>, <<A_HTML>>, <<B_HTML>> }}

\* whether this.getModuleInfo(id) returns a module
known(id) == id \in Range(moduleIds)

\* mod.isEntry || entry && entry === path.relative('./', moduleId)
isEntryModule(g, entry, moduleId) ==
    \/ moduleId \in g.isEntry
    \/ (entry # NoValue /\ entry = relative(moduleId))

\* the entryModules array of getTopologicalModuleList after its first loop
RECURSIVE findEntryModules(_, _, _)
findEntryModules(g, entry, k) ==
    IF k > Len(moduleIds) THEN <<>>
    ELSE (IF isEntryModule(g, entry, moduleIds[k]) THEN <<moduleIds[k]>> ELSE <<>>)
         \o findEntryModules(g, entry, k + 1)

\* a lookup.has(dep) that never finds the identity
hasNever(set, dep) == FALSE

\* lookup.has(dep)
has(set, dep) == dep \in Range(set)

\* an array push in place of Set.prototype.add
addAlways(set, id) == Append(set, id)

\* lookup.add(id) on a Set kept in insertion order
add(set, id) == IF id \in Range(set) THEN set ELSE Append(set, id)

\* the deepest walkModule recursion the model follows
MaxStack == 6

(***************************************************************************)
(* generateBundle(outputOptions)                                           *)
(***************************************************************************)
\* path.basename
basename(p) ==
    LET slashes == {k \in DOMAIN p : p[k] = "/"}
    IN  IF slashes = {} THEN p ELSE SubSeq(p, Max(slashes) + 1, Len(p))

\* path.join(dir, name)
join(dir, name) ==
    IF dir = <<".">> THEN name
    ELSE IF dir = <<"/">> THEN dir \o name
    ELSE dir \o <<"/">> \o name

DOT_MAP == <<".", "m", "a", "p">>

\* the keys in descending order, in place of Array.prototype.sort
RECURSIVE sortedDescending(_)
sortedDescending(S) ==
    IF S = {} THEN <<>>
    ELSE LET m == CHOOSE x \in S : \A y \in S \ {x} : stringLess(y, x)
         IN  <<m>> \o sortedDescending(S \ {m})

\* the keys of a set of strings in the order of Array.prototype.sort
RECURSIVE sorted(_)
sorted(S) ==
    IF S = {} THEN <<>>
    ELSE LET m == CHOOSE x \in S : \A y \in S \ {x} : stringLess(x, y)
         IN  <<m>> \o sorted(S \ {m})

\* output.add(componentStyles.get(moduleId)) for every listed module that
\* has an entry in componentStyles, from position k of the list on
RECURSIVE addStyles(_, _, _)
addStyles(list, styles, k) ==
    IF k > Len(list) THEN <<>>
    ELSE (IF list[k] \in DOMAIN styles THEN styles[list[k]] ELSE <<>>)
         \o addStyles(list, styles, k + 1)

\* output.add(node) for every value of cssResources (variant 1)
mapValues(m) == [k \in DOMAIN m |-> m[k][2]]

\* the CSS text: the concatenated fragments, and the sourceMappingURL
\* comment appended to them (NoValue when there is none)
cssSource(fragments, mappingURL) == <<"css", fragments, mappingURL>>

\* map.toString() of the map of the concatenated fragments
mapSource(fragments) == <<"map", fragments, NoValue>>

\* an emission that appends the sourceMappingURL comment and emits no map
emitCommentOnly(fragments, name, sourcemap) ==
    << [type |-> "asset", fileName |-> NoValue, name |-> name,
        source |-> cssSource(fragments, name \o DOT_MAP), map |-> FALSE] >>

\* the tail of generateBundle of variant 3 once `fragments` are in the
\* output node: what is emitted or handed to the handler
emit3(fragments, name, sourcemap) ==
    IF name = HANDLER
    THEN << [type |-> "handler", fileName |-> NoValue, name |-> NoValue,
             source |-> cssSource(fragments, NoValue), map |-> sourcemap] >>
    ELSE IF sourcemap
    THEN << [type |-> "asset", fileName |-> name \o DOT_MAP, name |-> NoValue,
             source |-> mapSource(fragments), map |-> FALSE],
            [type |-> "asset", fileName |-> NoValue, name |-> name,
             source |-> cssSource(fragments, name \o DOT_MAP), map |-> FALSE] >>
    ELSE << [type |-> "asset", fileName |-> NoValue, name |-> name,
             source |-> cssSource(fragments, NoValue), map |-> FALSE] >>

\* the files generateBundle of variant 1 writes
emit1(fragments, cssBundle, sourcemap) ==
    IF ~sourcemap
    THEN << [type |-> "file", fileName |-> cssBundle, name |-> NoValue,
             source |-> cssSource(fragments, NoValue), map |-> FALSE] >>
    ELSE LET sourceMapPath == basename(cssBundle) \o DOT_MAP
         IN  << [type |-> "file", fileName |-> cssBundle, name |-> NoValue,
                 source |-> cssSource(fragments, sourceMapPath), map |-> FALSE],
                [type |-> "file", fileName |-> join(dirname(cssBundle), sourceMapPath),
                 name |-> NoValue, source |-> mapSource(fragments), map |-> FALSE] >>

\* a guard that never returns early, in place of !options.css.name
nameNeverMissing(name) == FALSE

\* if (!options.css.name) return;  (opts.cssBundle in variant 1)
noBundleName(name) == name = NoValue

\* the host calls generateBundle once every module was transformed
allTransformed == \A id \in Modules : pc[id] \in {"resolved", "skipped"}

\* a node kept from the call before, in place of new SourceNode()
reuseOutput(node) == node

\* const output = new SourceNode(): an empty node, whatever an earlier call
\* has left
newOutput(node) == <<>>

\* generateBundle up to the traversal: returns at once without a bundle name,
\* writes the bundle in variant 1 and in the name-sorted fallback of variant
\* 3, and else starts getTopologicalModuleList. Only variant 3 reads the
\* host's graph, so a graph is handed to that variant alone. The host may
\* call generateBundle a second time, with the graph and output options of
\* the first call.
GenerateBundle(g, sourcemap, hasGetModuleIds) ==
    /\ allTransformed
    /\ hasGetModuleIds => variant = 3
    /\ \/ bundlePc = "idle"
       \/ /\ bundlePc = "done"
          /\ previous.run = 0
          /\ host = [graph |-> g, sourcemap |-> sourcemap, getModuleIds |-> hasGetModuleIds]
    /\ previous' = IF bundlePc = "done"
                   THEN [previous EXCEPT !.run = 1, !.output = output,
                                         !.emitted = emitted]
                   ELSE [previous EXCEPT !.styles = componentStyles,
                                         !.resources = cssResources]
    /\ host' = [graph |-> g, sourcemap |-> sourcemap, getModuleIds |-> hasGetModuleIds]
    /\ IF noBundleName(options.name)
       THEN /\ bundlePc' = "done"
            /\ UNCHANGED <<entryModules, entryIdx, lookup, stack, output, emitted>>
       ELSE IF variant = 1
       THEN /\ bundlePc' = "done"
            /\ output' = newOutput(output) \o mapValues(cssResources)
            /\ emitted' = emit1(output', options.name, sourcemap)
            /\ UNCHANGED <<entryModules, entryIdx, lookup, stack>>
       ELSE IF ~hasGetModuleIds
       THEN /\ bundlePc' = "done"
            /\ output' = newOutput(output)
                         \o addStyles(sorted(DOMAIN componentStyles), componentStyles, 1)
            /\ emitted' = emit3(output', options.name, sourcemap)
            /\ UNCHANGED <<entryModules, entryIdx, lookup, stack>>
       ELSE /\ bundlePc' = "walking"
            /\ output' = newOutput(output)
            /\ emitted' = <<>>
            /\ entryModules' = findEntryModules(g, options.entry, 1)
            /\ entryIdx' = 1
            /\ lookup' = <<>>
            /\ stack' = <<>>
    /\ UNCHANGED <<applied, variant, options, disk, pc, task, rejection, settled, jsResources,
                   scriptRef, componentStyles, cssResources>>

\* the imports read from last to first, in place of for (... of importedIds)
nextImportReversed(imports, i) == imports[Len(imports) + 1 - i]

\* for (const dep of mod.importedIds): the i-th import
nextImport(imports, i) == imports[i]

\* one step of entryModules.forEach / walkModule: take the next entry, or
\* the next import of the module on top of the stack, or return from
\* walkModule; getModuleInfo of an unknown identity gives no module and
\* reading its importedIds throws
WalkStep ==
    /\ bundlePc = "walking"
    /\ IF stack = <<>>
       THEN /\ entryIdx <= Len(entryModules)
            /\ lookup' = add(lookup, entryModules[entryIdx])
            /\ stack' = << [mod |-> entryModules[entryIdx], i |-> 1] >>
            /\ entryIdx' = entryIdx + 1
            /\ UNCHANGED bundlePc
       ELSE LET top     == stack[Len(stack)]
                imports == host.graph.imports[top.mod]
                rest    == SubSeq(stack, 1, Len(stack) - 1)
            IN  IF top.i > Len(imports)
                THEN /\ stack' = rest
                     /\ UNCHANGED <<lookup, entryIdx, bundlePc>>
                ELSE LET dep == nextImport(imports, top.i)
                     IN  IF has(lookup, dep)
                         THEN /\ stack' = Append(rest, [top EXCEPT !.i = @ + 1])
                              /\ UNCHANGED <<lookup, entryIdx, bundlePc>>
                         ELSE IF ~known(dep)
                         THEN /\ lookup' = add(lookup, dep)
                              /\ bundlePc' = "failed"
                              /\ stack' = <<>>
                              /\ UNCHANGED entryIdx
                         ELSE /\ Len(stack) < MaxStack
                              /\ lookup' = add(lookup, dep)
                              /\ stack' = Append(Append(rest, [top EXCEPT !.i = @ + 1]),
                                                 [mod |-> dep, i |-> 1])
                              /\ UNCHANGED <<entryIdx, bundlePc>>
    /\ UNCHANGED <<applied, previous, variant, options, disk, pc, task, rejection, settled, jsResources,
                   scriptRef, componentStyles, cssResources, host, entryModules,
                   output, emitted>>

\* getTopologicalModuleList returned Array.from(lookup): generateBundle adds
\* the fragments of the listed modules and emits the bundle
BundleFinish ==
    /\ bundlePc = "walking"
    /\ stack = <<>>
    /\ entryIdx > Len(entryModules)
    /\ bundlePc' = "done"
    /\ output' = output \o addStyles(lookup, componentStyles, 1)
    /\ emitted' = emit3(output', options.name, host.sourcemap)
    /\ UNCHANGED <<applied, previous, variant, options, disk, pc, task, rejection, settled, jsResources,
                   scriptRef, componentStyles, cssResources, host, entryModules,
                   entryIdx, lookup, stack>>

(***************************************************************************)
(* Specification                                                           *)
(***************************************************************************)
NoHost == [graph |-> NoGraph,
           sourcemap |-> FALSE, getModuleIds |-> FALSE]

Init ==
    /\ variant \in {1, 3}
    /\ options \in OptionSets(variant)
    /\ disk \in { {resolve(<<"/">>, S_CSS)}, {} }
    /\ pc = [id \in Modules |-> "idle"]
    /\ task = [id \in Modules |-> <<>>]
    /\ rejection = [id \in Modules |-> NoValue]
    /\ settled = [id \in Modules |-> NoValue]
    /\ jsResources = <<>>
    /\ scriptRef = [id \in Modules |-> <<>>]
    /\ componentStyles = <<>>
    /\ cssResources = <<>>
    /\ bundlePc = "idle"
    /\ host = NoHost
    /\ entryModules = <<>>
    /\ entryIdx = 1
    /\ lookup = <<>>
    /\ stack = <<>>
    /\ output = <<>>
    /\ emitted = <<>>
    /\ applied = [fn |-> "none", arg |-> NoValue, out |-> NoValue]
    /\ previous = [run |-> 0, output |-> <<>>, emitted |-> <<>>,
                   styles |-> <<>>, resources |-> <<>>]

Next ==
    \/ \E id \in Modules : TransformSkip(id)
    \/ \E id \in Modules : TransformStart(id)
    \/ \E id \in Modules, i \in 0..1 : TaskSettle(id, i)
    \/ \E id \in Modules : TransformResolve(id)
    \/ \E id \in Modules : TransformReject(id)
    \/ \E g \in HostGraphs \cup {NoGraph}, sourcemap \in BOOLEAN :
          GenerateBundle(g, sourcemap, g # NoGraph)
    \/ WalkStep
    \/ BundleFinish

Spec == Init /\ [][Next]_vars

\* the scheduling of generateBundle: the traversal is synchronous code that
\* runs to its end once started
FairSpec == Spec /\ WF_vars(WalkStep) /\ WF_vars(BundleFinish)

(***************************************************************************)
(* The helper functions applied to inputs of their whole domain            *)
(***************************************************************************)
\* the longest run of one character in a drawn module identity
MaxNameLen == 24

RECURSIVE repeat(_, _)
repeat(c, n) == IF n = 0 THEN <<>> ELSE <<c>> \o repeat(c, n - 1)

\* module identities of growing length: "/", a run of one character, ".html"
Identities ==
    { <<"/">> \o repeat(c, n) \o <<".", "h", "t", "m", "l">> :
        c \in {"a", "x"}, n \in 0..MaxNameLen }

\* document urls a parsed template may carry: absolute, relative, scoped,
\* with "." as first character, and without an extension
DocumentUrls ==
    { A_HTML,
      <<"a", ".", "h", "t", "m", "l">>,
      <<"@", "s", "/", "a", ".", "h", "t", "m", "l">>,
      <<".", "/", "a", ".", "h", "t", "m", "l">>,
      <<".", ".", "/", "a", ".", "h", "t", "m", "l">>,
      <<".", "a", ".", "h", "t", "m", "l">>,
      <<"/", "d", "/", "a">>,
      <<"a">>,
      <<".", "a">> }

\* every shape a ResourceTransformer may return (TransformedResource): a
\* string, a Buffer, or an object whose code and css are absent, a string
\* or a Buffer and whose map is absent, parsed, serialized as a string or a
\* Buffer, a SourceMapGenerator, or text that is no serialized map
TransformerReturns ==
    LET codes == {NoValue, text(<<>>), text(preCode(<<"cssA0">>)),
                  bytes(preCode(<<"cssA0">>))}
        maps  == {NoValue, rawMap(PRE_FILE), text(json(PRE_FILE)), bytes(json(PRE_FILE)),
                  generator(PRE_FILE), text(<<>>), text(GARBAGE)}
    IN  { [kind |-> k, code |-> c, css |-> NoValue, map |-> NoValue] :
            k \in {"string"}, c \in {text(<<>>), text(preCode(<<"cssA0">>))} }
        \cup { [kind |-> "buffer", code |-> bytes(preCode(<<"cssA0">>)), css |-> NoValue,
                map |-> NoValue] }
        \cup [kind : {"object"}, code : codes, css : codes, map : maps]

\* everything but `applied`
pluginVars == <<variant, options, disk, pc, task, rejection, settled, jsResources,
                scriptRef, componentStyles, cssResources, bundlePc, host,
                entryModules, entryIdx, lookup, stack, output, emitted, previous>>

\* options.css.scope(id) of the default options
ApplyScope(filePath) ==
    /\ applied' = [fn |-> "scope", arg |-> filePath, out |-> scope(filePath)]
    /\ UNCHANGED pluginVars

\* createAssetUrl and the registration of its result by transform
ApplyCreateAssetUrl(baseUrl, ext, index) ==
    /\ applied' = [fn |-> "createAssetUrl", arg |-> <<baseUrl, ext, index>>,
                   out |-> virtualPath(variant, baseUrl, ext, index)]
    /\ UNCHANGED pluginVars

\* transformResource of variant 3 awaited on a transformer's return value
ApplyTransformResource(transformed) ==
    /\ variant = 3
    /\ applied' = [fn |-> "transformResource", arg |-> transformed,
                   out |-> transformResource(transformed)]
    /\ UNCHANGED pluginVars

FunctionInit ==
    /\ Init
    /\ options = [preprocess |-> TRUE, scope |-> "default", name |-> NoValue,
                  entry |-> NoValue]
    /\ disk = {}

FunctionNext ==
    \/ \E filePath \in Identities : ApplyScope(filePath)
    \/ \E baseUrl \in DocumentUrls, ext \in Range(types), index \in 0..2 :
          ApplyCreateAssetUrl(baseUrl, ext, index)
    \/ \E transformed \in TransformerReturns : ApplyTransformResource(transformed)

FunctionSpec == FunctionInit /\ [][FunctionNext]_vars

(***************************************************************************)
(* Properties                                                              *)
(***************************************************************************)
\* the templates of the build: the modules transform does not skip
Templates == {id \in Modules : extname(id) \in extensions}

\* the (template, index) pairs of the inline scripts transform has registered
Registered ==
    {r \in Templates \X (0..2) :
        pc[r[1]] \in {"running", "resolved", "rejected"} /\ r[2] \in inlineScripts(r[1])}

\* C1: in variant 3, once transform of a template has completed, the
\* fragments stored for it are in the positional order of its stylesheets,
\* whatever the order in which the tasks finished (stated for builds with a
\* preprocess transformer, whose promises settle in any order).
C1_FragmentsInPositionalOrder ==
    (variant = 3 /\ options.preprocess) =>
        \A id \in Templates :
            pc[id] = "resolved" =>
                \A k, l \in DOMAIN componentStyles[id] :
                    k < l => componentStyles[id][k].origin[2] < componentStyles[id][l].origin[2]

\* there is a path of one or more (at most `steps`) import edges from
\* module m to the identity n
RECURSIVE reaches(_, _, _, _)
reaches(g, m, n, steps) ==
    /\ steps > 0
    /\ \E d \in Range(g.imports[m]) :
          d = n \/ (d \in Modules /\ reaches(g, d, n, steps - 1))

\* the import graph has no cycle
acyclic(g) == \A m \in Modules : ~reaches(g, m, m, Cardinality(Modules))

\* C2: for an acyclic import graph, the bundle assembled from
\* getTopologicalModuleList has every fragment of an imported module before
\* every fragment of the module that imports it.
C2_DependencyBeforeDependent ==
    (variant = 3 /\ bundlePc = "done" /\ host.getModuleIds /\ options.name # NoValue
       /\ acyclic(host.graph)) =>
        \A k, l \in DOMAIN output :
            output[l].origin[1] \in Range(host.graph.imports[output[k].origin[1]])
                => l < k

\* C3: after transform of a template (variant 1), every inline script's
\* reference is the virtual path it was registered under, resolveId of that
\* path returns the path and load of it returns the script's original content.
C3_InlineScriptsLoadable ==
    variant = 1 =>
        \A id \in Templates :
            pc[id] = "resolved" =>
                \A i \in inlineScripts(id) :
                    LET p == scriptRef[id][i + 1]
                    IN  /\ p = assetUrlOf(variant, id, i)
                        /\ resolveId(p) = p
                        /\ load(p) = parse(id).scripts[i + 1].content

\* C4: a registered virtual path stays registered with the same content in
\* every later step of the plugin instance.
C4_RegistryEntriesStable ==
    [][\A p \in DOMAIN jsResources :
          p \in DOMAIN jsResources' /\ jsResources'[p] = jsResources[p]]_vars

\* C5: no two registered inline scripts, of one template or of two, share a
\* virtual path.
C5_VirtualPathsDistinct ==
    \A r1, r2 \in Registered :
        r1 # r2 => scriptRef[r1[1]][r1[2] + 1] # scriptRef[r2[1]][r2[2] + 1]

\* generateBundle of variant 3 has finished after a traversal of the graph
listReturned ==
    variant = 3 /\ bundlePc = "done" /\ host.getModuleIds /\ options.name # NoValue

\* the entry modules and every identity an entry reaches through import edges
reachableFromEntries ==
    Range(entryModules) \cup
    {n \in Modules \cup {GONE_JS} :
        \E e \in Range(entryModules) : reaches(host.graph, e, n, Cardinality(Modules))}

\* C6: the list getTopologicalModuleList returns holds each identity at most
\* once and holds exactly the entry modules and the modules reachable from
\* an entry through importedIds edges.
C6_ListIsReachableSetOnce ==
    listReturned =>
        /\ \A k, l \in DOMAIN lookup : k # l => lookup[k] # lookup[l]
        /\ Range(lookup) = reachableFromEntries

\* C6 witness: A_HTML is the only entry, imports B_HTML, and B_HTML imports
\* A_HTML; the list returned is A_HTML, B_HTML.
C6_Witness ==
    /\ listReturned
    /\ options.entry = NoValue
    /\ host.graph.isEntry = {A_HTML}
    /\ host.graph.imports[A_HTML] = <<B_HTML>>
    /\ host.graph.imports[B_HTML] = <<A_HTML>>
    /\ lookup = <<A_HTML, B_HTML>>

\* C7: every traversal getTopologicalModuleList starts comes to an end (it
\* returns its list or throws), also on graphs with import cycles,
\* self-imports and entries that reach each other.
C7_TraversalTerminates == (bundlePc = "walking") ~> (bundlePc # "walking")

\* C7 witness: a traversal has returned on a graph with two entries that
\* import each other and a self-import.
C7_Witness ==
    /\ listReturned
    /\ host.graph.isEntry = {A_HTML, B_HTML}
    /\ host.graph.imports[A_HTML] = <<A_HTML, B_HTML>>
    /\ host.graph.imports[B_HTML] = <<A_HTML>>

\* C8: when the traversal meets an imported identity the host knows no module
\* for, it does not fail.
C8_StaleEdgeDoesNotFail ==
    (\E k \in DOMAIN lookup : ~known(lookup[k])) => bundlePc # "failed"

\* C9: with a custom entry configured the entry set of the traversal is the
\* set of modules matching it, and the list holds what those reach and no
\* more; with none configured it is the set of modules the host marks isEntry.
C9_CustomEntryReplacesHostEntries ==
    listReturned =>
        IF options.entry # NoValue
        THEN LET custom == {m \in Modules : relative(m) = options.entry}
             IN  /\ Range(entryModules) = custom
                 /\ Range(lookup) = custom \cup
                       {n \in Modules :
                           \E e \in custom : reaches(host.graph, e, n, Cardinality(Modules))}
        ELSE Range(entryModules) = host.graph.isEntry

\* the stylesheets (0-based) of a template whose preprocess transformer threw
threw(id) == {i \in 0..1 : i + 1 \in DOMAIN task[id]
                            /\ task[id][i + 1].error = TransformError(id, i)}

\* C10 as stated: for every stylesheet whose preprocess transformer threw,
\* the settled transform has rejected with that stylesheet's error, and
\* generate was not invoked.
C10_RejectsWithEveryThrownError ==
    \A id \in Templates : \A i \in threw(id) :
        pc[id] \in {"resolved", "rejected"} =>
            pc[id] = "rejected" /\ settled[id] = TransformError(id, i)

\* C10 amended: when the preprocess transformer threw for a stylesheet of a
\* template, transform does not resolve and generate is not invoked; the
\* settled transform has rejected with the unchanged error of the stylesheet
\* task that failed first, which is that stylesheet's error when no other
\* task of the template failed.
C10_RejectsWithFirstError ==
    \A id \in Templates : \A i \in threw(id) :
        /\ pc[id] # "resolved"
        /\ settled[id] # <<"generated", id>>
        /\ pc[id] = "rejected" =>
              /\ settled[id] = rejection[id]
              /\ \E k \in DOMAIN task[id] : settled[id] = task[id][k].error
              /\ (\A k \in DOMAIN task[id] : k # i + 1 => task[id][k].state # "rejected")
                    => settled[id] = TransformError(id, i)

\* C10 witness: the transformer threw for the only failing stylesheet of a
\* template and transform has rejected with that error.
C10_Witness ==
    \E id \in Templates : \E i \in threw(id) :
        /\ pc[id] = "rejected"
        /\ settled[id] = TransformError(id, i)
        /\ \A k \in DOMAIN task[id] : k # i + 1 => task[id][k].state = "fulfilled"

\* C11: transformResource returns one canonical shape {code, map}: a
\* string or bytes becomes text code with no map, an object's css or code
\* field becomes text code, a map given as bytes becomes text, and a map
\* given as a SourceMapGenerator is returned as the finalized plain map.
C11_CanonicalShape ==
    applied.fn = "transformResource" =>
        LET ret == applied.arg
            out == applied.out
        IN  /\ ret.kind \in {"string", "buffer"} =>
                   out = [code |-> text(ret.code[2]), map |-> NoValue]
            /\ (ret.kind = "object" /\ (truthy(ret.css) \/ ret.code # NoValue)) =>
                   /\ out.code[1] = "string"
                   /\ \E field \in {ret.css, ret.code} \ {NoValue} : out.code[2] = field[2]
            /\ (ret.kind = "object" /\ ret.map[1] = "buffer") =>
                   out.map = text(ret.map[2])
            /\ (ret.kind = "object" /\ ret.map[1] = "generator") =>
                   out.map = rawMap(ret.map[2])

\* C14: for every identity the default scope function returns the prefix
\* "e" followed only by characters of the base-36 alphabet [0-9a-z].
C14_TokenIsBase36 ==
    applied.fn = "scope" =>
        /\ Len(applied.out) >= 2
        /\ applied.out[1] = "e"
        /\ \A k \in 2..Len(applied.out) : applied.out[k] \in Range(Digits36)

\* C15: the registered virtual path is the document url without its file
\* extension, followed by "_", the index and the extension, and begins with
\* "./", "/" or "@", also for a url without extension or starting with ".".
C15_VirtualPathFromUrl ==
    applied.fn = "createAssetUrl" =>
        LET baseUrl == applied.arg[1]
            ext     == applied.arg[2]
            index   == applied.arg[3]
            stem    == SubSeq(baseUrl, 1, Len(baseUrl) - Len(extname(baseUrl)))
            out     == applied.out
            path    == stem \o <<"_">> \o indexToString(index) \o ext
        IN  /\ out \in {path, <<".", "/">> \o path}
            /\ \/ out[1] \in {"/", "@"}
               \/ SubSeq(out, 1, 2) = <<".", "/">>

\* the fragments the Aggregator holds
Fragments ==
    UNION {Range(componentStyles[id]) : id \in DOMAIN componentStyles}
    \cup Range(mapValues(cssResources))

\* the code of a fragment before scoping
codeBeforeScoping(f) == IF f.code[1] = "scoped" THEN f.code[3] ELSE f.code

\* the original content of the stylesheet a fragment was made of
originalContent(f) == contentOf(f.origin[1], parse(f.origin[1]).stylesheets[f.origin[2] + 1])

\* C12: when no preprocessing transformer is configured, the fragment stored
\* for every stylesheet has the resource's original content as its code
\* before scoping, in both variants.
C12_ContentKeptWithoutTransformer ==
    ~options.preprocess =>
        \A f \in Fragments : codeBeforeScoping(f) = text(originalContent(f))

\* C13: when generateBundle runs (every document transformed once), every
\* stylesheet of every transformed document has its own fragment in the
\* Aggregator: none was overwritten or dropped by another's.
C13_EveryStylesheetKeepsItsFragment ==
    allTransformed =>
        \A id \in Templates : \A k \in DOMAIN parse(id).stylesheets :
            \E f \in Fragments : f.origin = <<id, k - 1>>

\* the ids the host may ask load and resolveId about: the modules of the
\* build, a stale one, the registered paths and other import specifiers
QueryIds == Modules \cup {GONE_JS, S_CSS} \cup DOMAIN jsResources \cup ObjectPrototypeKeys

\* the virtual paths the transforms of this plugin instance have registered
RegisteredPaths == {assetUrlOf(variant, r[1], r[2]) : r \in Registered}

\* C16: load(id) and resolveId(id) return a non-null result only for an id
\* that an earlier transform registered as a virtual path; for every other
\* id both return null.
C16_OnlyRegisteredIdsFound ==
    \A id \in QueryIds :
        (load(id) # NoValue \/ resolveId(id) # NoValue) => id \in RegisteredPaths

\* a map that cannot be parsed: a string or bytes that are no serialized map
unparseable(map) == map[1] \in {"string", "buffer"} /\ ~isJSON(map[2])

\* C17: if the transformer returns a source map that cannot be parsed (the
\* empty string included), transform fails, with or without a scope token;
\* no fragment is stored for such a return with the map dropped.
C17_MalformedMapFails ==
    \A f \in Fragments : ~unparseable(f.returned)

\* the name an emitted artifact goes by: its fileName, else its name
artifactName(e) == IF e.fileName # NoValue THEN e.fileName ELSE e.name

\* the emitted artifacts that hold CSS text, and those that hold a map
cssArtifacts == {k \in DOMAIN emitted : emitted[k].type # "handler"
                                        /\ emitted[k].source[1] = "css"}
mapArtifacts == {k \in DOMAIN emitted : emitted[k].source[1] = "map"}

\* C18 as stated: when no bundle name is configured, generateBundle still
\* emits the CSS artifact (under a default name).
C18_DefaultNameEmitted ==
    (bundlePc = "done" /\ options.name = NoValue) => cssArtifacts # {}

\* C18 amended: when no bundle name is configured, generateBundle emits
\* nothing; with a name given as a string it emits the CSS artifact under
\* exactly that name.
C18_NoNameNoArtifact ==
    bundlePc = "done" =>
        /\ options.name = NoValue => emitted = <<>>
        /\ options.name = BUNDLE_NAME =>
              \E k \in cssArtifacts : artifactName(emitted[k]) = BUNDLE_NAME

\* C18 witness: generateBundle has returned without a bundle name while the
\* Aggregator holds fragments, and nothing was emitted.
C18_Witness ==
    bundlePc = "done" /\ options.name = NoValue /\ Fragments # {} /\ emitted = <<>>

outputOf(id) ==
    LET fromId(f) == f.origin[1] = id
    IN  SelectSeq(output, fromId)

\* C20: when the host has no getModuleIds, the bundle holds the fragments
\* of all modules of the Aggregator in ascending order of identity (by
\* code unit), each module's fragments in their recorded order.
C20_FallbackSortedByIdentity ==
    (bundlePc = "done" /\ variant = 3 /\ ~host.getModuleIds /\ options.name # NoValue) =>
        /\ \A k, l \in DOMAIN output :
              k < l => ~stringLess(output[l].origin[1], output[k].origin[1])
        /\ \A id \in DOMAIN componentStyles : outputOf(id) = componentStyles[id]
        /\ Len(output) = Cardinality(Fragments)

\* C20 witness: the fallback has bundled the fragments of a.html and
\* b.html, those of a.html recorded out of positional order.
C20_Witness ==
    /\ bundlePc = "done" /\ variant = 3 /\ ~host.getModuleIds /\ options.name # NoValue
    /\ Len(output) = 3
    /\ componentStyles[A_HTML][1].origin = <<A_HTML, 1>>

RECURSIVE discovered(_, _, _, _)
discovered(g, id, k, seen) ==
    IF k > Len(g.imports[id]) THEN seen
    ELSE LET dep == g.imports[id][k]
         IN  IF dep \in Range(seen) \/ ~known(dep)
             THEN discovered(g, id, k + 1, seen)
             ELSE discovered(g, id, k + 1, discovered(g, dep, 1, Append(seen, dep)))

\* the pre-order list of the entries k, k+1, ... of `entries`
RECURSIVE preorder(_, _, _, _)
preorder(g, entries, k, seen) ==
    IF k > Len(entries) THEN seen
    ELSE LET first == IF entries[k] \in Range(seen) THEN seen
                      ELSE Append(seen, entries[k])
         IN  preorder(g, entries, k + 1, discovered(g, entries[k], 1, first))

stored(id, k) ==
    IF variant = 3
    THEN \E f \in Range(componentStyles[id]) : f.origin = <<id, k - 1>>
    ELSE \E e \in Range(cssResources) : e[1] = fullIdOf(id, parse(id).stylesheets[k])

\* C23: generate is invoked only after every stylesheet task of the
\* document has finished and stored its fragment, whatever the interleaving
\* of the tasks; a document without stylesheets has nothing to wait for.
C23_GenerateAfterAllTasks ==
    \A id \in Templates :
        /\ settled[id] = <<"generated", id>> =>
              \A k \in DOMAIN parse(id).stylesheets :
                  /\ k \in DOMAIN task[id]
                  /\ task[id][k].state = "fulfilled"
                  /\ stored(id, k)
        /\ (pc[id] = "running" /\ parse(id).stylesheets = <<>>) =>
              (allFulfilled(task[id]) /\ rejection[id] = NoValue)

\* C23 witness: generate was invoked for a.html after its two tasks stored
\* their fragments, the second before the first, and for a.end, which has
\* no stylesheet.
C23_Witness ==
    /\ settled[A_HTML] = <<"generated", A_HTML>>
    /\ settled[A_END] = <<"generated", A_END>>
    /\ task[A_HTML][1].state = "fulfilled" /\ task[A_HTML][2].state = "fulfilled"
    /\ variant = 3
    /\ componentStyles[A_HTML][1].origin = <<A_HTML, 1>>

\* C24: every stored fragment carries the stylesheet's original text as
\* source content under the resource's file name (file name first, text
\* second), for inline and external stylesheets, in both variants.
C24_SourceContentUnderFileName ==
    \A f \in Fragments :
        f.sourceContent =
            << fullIdOf(f.origin[1], parse(f.origin[1]).stylesheets[f.origin[2] + 1]),
               originalContent(f) >>

\* the fragments the Aggregator holds for the stylesheets of a document
fragmentsOf(id) == {f \in Fragments : f.origin[1] = id}

\* C25: once transform of a document has settled (resolved or rejected), no
\* step changes the fragments the Aggregator holds for that document.
C25_NoStoreAfterSettle ==
    [][\A id \in Templates :
          pc[id] \in {"resolved", "rejected"} => fragmentsOf(id)' = fragmentsOf(id)]_vars

====
